---- MODULE Spec2Model ----
(***************************************************************************)
(* Content-based music recommender: data/loader.py (catalog load + cache)  *)
(* and recommendation_engine.py (min-max scaling, cosine similarity,       *)
(* ranking).                                                               *)
(*                                                                         *)
(* Representation.                                                         *)
(*  - Text cells (track_name, artists, genre, mood names) are sequences of *)
(*    one-character strings, so that letter case is observable.            *)
(*  - track_id values are opaque strings; str() of a str is that str.      *)
(*  - A raw feature value is an integer count of the column's unit:        *)
(*    1/UnitsPerOne[c].  0.05 is 1 in a 1/20 column, tempo 120 is 120.     *)
(*  - Scaled values are exact rationals, kept as integer numerators over   *)
(*    one common denominator (scaler.den).  Similarities are compared and  *)
(*    rounded exactly; floating-point error is not modelled.               *)
(***************************************************************************)
EXTENDS Integers, Sequences, FiniteSets, TLC

\* ------------------------------------------------------------------ bounds
MaxRows == 3
MaxK == 4

\* ------------------------------------------------------------- text values
UpperLetters == <<"A","B","C","D","E","F","G","H","I","J","K","L","M",
                  "N","O","P","Q","R","S","T","U","V","W","X","Y","Z">>
LowerLetters == <<"a","b","c","d","e","f","g","h","i","j","k","l","m",
                  "n","o","p","q","r","s","t","u","v","w","x","y","z">>

LowerChar(c) ==
  IF \E i \in 1..Len(UpperLetters) : UpperLetters[i] = c
  THEN LowerLetters[CHOOSE i \in 1..Len(UpperLetters) : UpperLetters[i] = c]
  ELSE c

\* str.lower()
Lower(s) == [i \in 1..Len(s) |-> LowerChar(s[i])]

\* a missing (NaN) text cell of the csv
NaNText == <<"NaN">>

\* ------------------------------------------------------- feature columns
AUDIO_FEATURES == <<"danceability", "energy", "loudness", "speechiness",
                    "acousticness", "instrumentalness", "liveness",
                    "valence", "tempo">>

get_audio_features_columns == AUDIO_FEATURES

NF == Len(AUDIO_FEATURES)

\* integer units per 1.0 of each column (0..1 features in 1/20, dB and BPM
\* in whole units)
UnitsPerOne == <<20, 20, 1, 20, 20, 20, 20, 20, 1>>

\* ------------------------------------------------------------- arithmetic
Abs(x) == IF x < 0 THEN 0 - x ELSE x

Min2(a, b) == IF a <= b THEN a ELSE b

RECURSIVE GCD(_, _)
GCD(a, b) == IF b = 0 THEN Abs(a) ELSE GCD(b, a % b)

LCM(a, b) == (a * b) \div GCD(a, b)

RECURSIVE DotUpTo(_, _, _)
DotUpTo(u, v, c) == IF c = 0 THEN 0 ELSE u[c] * v[c] + DotUpTo(u, v, c - 1)

Dot(u, v) == DotUpTo(u, v, NF)

\* a/b <= c/d for a, c >= 0 and b, d > 0, by comparing continued fractions
\* (no product is formed)
RECURSIVE FracLeq(_, _, _, _)
FracLeq(a, b, c, d) ==
  LET qa == a \div b
      qc == c \div d
      ra == a % b
      rc == c % d
  IN  IF qa # qc THEN qa < qc
      ELSE IF ra = 0 THEN TRUE
      ELSE IF rc = 0 THEN FALSE
      ELSE FracLeq(d, rc, b, ra)

\* ------------------------------------------------- cosine similarity values
\* A similarity is kept as its sign and its square in lowest terms:
\* value = sgn * sqrt(num / den).
SimZero == [sgn |-> 0, num |-> 0, den |-> 1]

\* the value -1 written over the seed's own entry
SimMinusOne == [sgn |-> 0 - 1, num |-> 1, den |-> 1]

\* sklearn.metrics.pairwise.cosine_similarity for one pair of rows: both rows
\* are L2-normalised (a zero row is left as it is) and multiplied
cosine_similarity(u, v) ==
  LET d  == Dot(u, v)
      nu == Dot(u, u)
      nv == Dot(v, v)
  IN  IF nu = 0 \/ nv = 0 \/ d = 0 THEN SimZero
      ELSE LET d2 == d * d
               g1 == GCD(d2, nu)
               a  == d2 \div g1
               b  == nu \div g1
               g2 == GCD(a, nv)
           IN  [sgn |-> IF d < 0 THEN 0 - 1 ELSE 1,
                num |-> a \div g2,
                den |-> b * (nv \div g2)]

\* s <= t as real numbers
SimLeq(s, t) ==
  IF s.sgn # t.sgn THEN s.sgn < t.sgn
  ELSE IF s.sgn = 0 THEN TRUE
  ELSE IF s.sgn > 0 THEN FracLeq(s.num, s.den, t.num, t.den)
  ELSE FracLeq(t.num, t.den, s.num, s.den)

SimLess(s, t) == ~SimLeq(t, s)

\* largest t in lo..hi with (2t-1)^2 / 4000000 <= num/den, i.e. with
\* t - 1/2 <= 1000 * sqrt(num/den); the predicate holds at lo
RECURSIVE RoundSearch(_, _, _, _)
RoundSearch(num, den, lo, hi) ==
  IF lo = hi THEN lo
  ELSE LET mid == (lo + hi + 1) \div 2
       IN  IF FracLeq((2 * mid - 1) * (2 * mid - 1), 4000000, num, den)
           THEN RoundSearch(num, den, mid, hi)
           ELSE RoundSearch(num, den, lo, mid - 1)

\* round(score * 100, 1), in tenths of a percent; halves go to the even
\* neighbour as numpy's rint does
RoundScore(s) ==
  IF s.sgn = 0 THEN 0
  ELSE LET t    == RoundSearch(s.num, s.den, 0, 1000 * (1 + s.num \div s.den))
           half == FracLeq(s.num, s.den, (2 * t - 1) * (2 * t - 1), 4000000)
           m    == IF t > 0 /\ half /\ t % 2 = 1 THEN t - 1 ELSE t
       IN  s.sgn * m

\* ----------------------------------------------------------------- argsort
\* np.argsort(a) with the default kind is not a stable sort: the order it
\* leaves equal keys in depends on the numpy build.  tie is that order,
\* fixed for one run: "index_asc" (what a stable sort gives) or
\* "index_desc".
TieOrders == {"index_asc", "index_desc"}

Before(a, tie, i, j) ==
  \/ SimLess(a[i], a[j])
  \/ /\ ~SimLess(a[j], a[i])
     /\ IF tie = "index_asc" THEN i < j ELSE i > j

argsort(a, tie) ==
  [p \in 1..Len(a) |->
     CHOOSE i \in 1..Len(a) :
       Cardinality({j \in 1..Len(a) : Before(a, tie, j, i)}) = p - 1]

\* x[::-1]
Reversed(x) == [p \in 1..Len(x) |-> x[Len(x) + 1 - p]]

\* x[:n] for n >= 0
Head_n(x, n) == SubSeq(x, 1, Min2(n, Len(x)))

\* ------------------------------------------------------------ data/loader
UnknownArtist == <<"U","n","k","n","o","w","n"," ","A","r","t","i","s","t">>
UnknownAlbum == <<"U","n","k","n","o","w","n"," ","A","l","b","u","m">>
UnknownTrack == <<"U","n","k","n","o","w","n"," ","T","r","a","c","k">>
UnknownGenre == <<"u","n","k","n","o","w","n">>

\* A csv feature cell is text: num says whether it parses as a number (v).
\* A numeric cell of the data frame is a number v or NaN.
Cell(x) == [num |-> TRUE, v |-> x]
BadCell == [num |-> FALSE, v |-> 0]
Num(x) == [nan |-> FALSE, v |-> x]
NaNNum == [nan |-> TRUE, v |-> 0]

\* pd.to_numeric(col, errors='coerce')
to_numeric(cell) == IF cell.num THEN Num(cell.v) ELSE NaNNum

\* Series.fillna(value)
fillna(x, value) == IF x.nan THEN Num(value) ELSE x
fillna_text(x, value) == IF x = NaNText THEN value ELSE x

\* lines 27-37: the per-row effect of the column clean-up
CleanRow(r) ==
  [track_id   |-> r.track_id,
   track_name |-> fillna_text(r.track_name, UnknownTrack),
   artists    |-> fillna_text(r.artists, UnknownArtist),
   album_name |-> fillna_text(r.album_name, UnknownAlbum),
   genre      |-> fillna_text(r.track_genre, UnknownGenre),
   popularity |-> r.popularity,
   features   |-> [c \in 1..NF |-> fillna(to_numeric(r.features[c]), 0)]]

\* variant: keep='last'
drop_duplicates_keep_last(df) ==
  LET keep == {i \in 1..Len(df) :
                 \A j \in (i + 1)..Len(df) : df[j].track_id # df[i].track_id}
      F[i \in 0..Len(df)] ==
        IF i = 0 THEN <<>>
        ELSE IF i \in keep THEN Append(F[i - 1], df[i]) ELSE F[i - 1]
  IN  F[Len(df)]

\* df.drop_duplicates(subset=['track_id'], keep='first')
drop_duplicates(df) ==
  LET keep == {i \in 1..Len(df) :
                 \A j \in 1..(i - 1) : df[j].track_id # df[i].track_id}
      F[i \in 0..Len(df)] ==
        IF i = 0 THEN <<>>
        ELSE IF i \in keep THEN Append(F[i - 1], df[i]) ELSE F[i - 1]
  IN  F[Len(df)]

\* df.dropna(subset=AUDIO_FEATURES)
HasAllFeatures(r) == \A c \in 1..NF : ~r.features[c].nan

dropna(df) == SelectSeq(df, HasAllFeatures)

\* the data frame load_full_dataset builds from the csv rows (lines 25-43)
CleanDataset(rows) ==
  dropna(drop_duplicates([i \in 1..Len(rows) |-> CleanRow(rows[i])]))

NoCache == [set |-> FALSE, df |-> <<>>]

\* the columns of a complete spotify_full.csv that the loader touches
CsvColumns ==
  {"track_id", "artists", "album_name", "track_name", "track_genre"}
    \cup {AUDIO_FEATURES[c] : c \in 1..NF}

\* variant: the feature columns are only cleaned where present
RequiredColumns_no_features ==
  {"track_id", "artists", "album_name", "track_name", "track_genre"}

\* the columns whose absence makes a statement of lines 29-41 raise KeyError:
\* df['track_id'], df['artists'], df['album_name'], df['track_name'],
\* df['genre'] (renamed from track_genre) and dropna(subset=AUDIO_FEATURES)
RequiredColumns ==
  {"track_id", "artists", "album_name", "track_name", "track_genre"}
    \cup {AUDIO_FEATURES[c] : c \in 1..NF}

\* variant: the cache is never consulted
load_full_dataset_uncached(cache, file) ==
  IF ~file.readable
  THEN [df |-> <<>>, cache |-> cache, read |-> FALSE,
        raised |-> "FileNotFoundError"]
  ELSE IF ~(RequiredColumns \subseteq file.columns)
  THEN [df |-> <<>>, cache |-> cache, read |-> TRUE, raised |-> "KeyError"]
  ELSE LET df == CleanDataset(file.rows)
       IN  [df |-> df, cache |-> [set |-> TRUE, df |-> df], read |-> TRUE,
            raised |-> "none"]

\* load_full_dataset(): the returned frame, the new value of _cached_df,
\* whether pd.read_csv read the file, and the exception that left the
\* function: pd.read_csv raises on an unreadable file, a missing column
\* raises KeyError before line 45 assigns the cache
load_full_dataset(cache, file) ==
  IF cache.set
  THEN [df |-> cache.df, cache |-> cache, read |-> FALSE, raised |-> "none"]
  ELSE IF ~file.readable
  THEN [df |-> <<>>, cache |-> cache, read |-> FALSE,
        raised |-> "FileNotFoundError"]
  ELSE IF ~(RequiredColumns \subseteq file.columns)
  THEN [df |-> <<>>, cache |-> cache, read |-> TRUE, raised |-> "KeyError"]
  ELSE LET df == CleanDataset(file.rows)
       IN  [df |-> df, cache |-> [set |-> TRUE, df |-> df], read |-> TRUE,
            raised |-> "none"]

\* get_dataset_stats() on the frame load_full_dataset returned
dataset_stats(df) ==
  [total_tracks   |-> Len(df),
   total_genres   |-> Cardinality({df[i].genre : i \in 1..Len(df)}),
   total_artists  |-> Cardinality({df[i].artists : i \in 1..Len(df)}),
   audio_features |-> Len(AUDIO_FEATURES)]

\* ------------------------------------------------------ MinMaxScaler
\* df[self.feature_columns].values
FeatureMatrix(df) == [i \in 1..Len(df) |-> [c \in 1..NF |-> df[i].features[c].v]]

ColMin(X, c) == CHOOSE m \in {X[i][c] : i \in 1..Len(X)} :
                  \A i \in 1..Len(X) : m <= X[i][c]
ColMax(X, c) == CHOOSE m \in {X[i][c] : i \in 1..Len(X)} :
                  \A i \in 1..Len(X) : m >= X[i][c]

RECURSIVE LCMOver(_, _)
LCMOver(d, c) == IF c = 0 THEN 1 ELSE LCM(d[c], LCMOver(d, c - 1))

\* MinMaxScaler.fit on a matrix with at least one row: data_min_ and the
\* divisor of each column, which is data_range_ with a zero range replaced
\* by 1.0 (one whole unit of the column); den is the common denominator the
\* scaled values are written over
fit(X) ==
  LET mn  == [c \in 1..NF |-> ColMin(X, c)]
      rng == [c \in 1..NF |-> ColMax(X, c) - ColMin(X, c)]
      dv  == [c \in 1..NF |-> IF rng[c] = 0 THEN UnitsPerOne[c] ELSE rng[c]]
  IN  [data_min |-> mn, data_range |-> rng, divisor |-> dv,
       den |-> LCMOver(dv, NF)]

\* MinMaxScaler.transform of one row: (x - data_min) / divisor, not clipped
transform(scaler, x) ==
  [c \in 1..NF |-> (x[c] - scaler.data_min[c]) * (scaler.den \div scaler.divisor[c])]

\* MinMaxScaler() before fit
UnfittedScaler ==
  [data_min |-> [c \in 1..NF |-> 0], data_range |-> [c \in 1..NF |-> 0],
   divisor |-> [c \in 1..NF |-> 1], den |-> 1]

\* no MusicRecommender object exists
NoRecommender ==
  [built |-> FALSE, df |-> <<>>, scaler |-> UnfittedScaler,
   scaled_features |-> <<>>]

\* MusicRecommender.__init__ + _prepare_features on a frame with >= 1 row
MusicRecommender(df) ==
  LET X  == FeatureMatrix(df)
      sc == fit(X)
  IN  [built |-> TRUE, df |-> df, scaler |-> sc,
       scaled_features |-> [i \in 1..Len(X) |-> transform(sc, X[i])]]

\* ------------------------------------------------------- recommendations
\* str(track_id) of a str
Str(x) == x

\* track = self.df.iloc[i].to_dict(); track['similarity_score'] = round(..)
Recommendation(df, i, sim) ==
  [track_id |-> df[i].track_id, track_name |-> df[i].track_name,
   artists |-> df[i].artists, album_name |-> df[i].album_name,
   genre |-> df[i].genre, popularity |-> df[i].popularity,
   features |-> df[i].features,
   similarity_score |-> RoundScore(sim)]

\* the positions where mask holds, ascending: np.where(mask)[0]
where(mask) ==
  LET F[i \in 0..Len(mask)] ==
        IF i = 0 THEN <<>>
        ELSE IF mask[i] THEN Append(F[i - 1], i) ELSE F[i - 1]
  IN  F[Len(mask)]

\* variant: an unknown id falls back to the first row
track_matches_first(df, track_id) ==
  LET m == {i \in 1..Len(df) : df[i].track_id = Str(track_id)}
  IN  IF m = {} /\ Len(df) > 0 THEN {1} ELSE m

\* self.df[self.df['track_id'] == str(track_id)].index: the rows whose id
\* is the one asked for
track_matches(df, track_id) ==
  {i \in 1..Len(df) : df[i].track_id = Str(track_id)}

\* variant: the mask only drops the seed row
artist_mask_seed_only(df, idx) == [j \in 1..Len(df) |-> j # idx]

\* mask = self.df['artists'] != seed_artist; mask[idx] = False
artist_mask(df, idx) ==
  [j \in 1..Len(df) |-> j # idx /\ df[j].artists # df[idx].artists]

\* variant: the seed's own entry is left as computed
force_seed_skipped(similarities, idx) == similarities

\* similarities[idx] = -1
force_seed(similarities, idx) == [similarities EXCEPT ![idx] = SimMinusOne]

\* variant: the ascending order is not reversed
top_n_ascending(a, n, tie) == Head_n(argsort(a, tie), n)

\* np.argsort(a)[::-1][:n]
top_n(a, n, tie) == Head_n(Reversed(argsort(a, tie)), n)

get_recommendations(self, track_id, n_recommendations, exclude_same_artist, tie) ==
  LET df      == self.df
      N       == Len(df)
      matches == track_matches(df, track_id)
  IN  IF matches = {} THEN <<>>
      ELSE
        LET idx  == CHOOSE i \in matches : \A j \in matches : i <= j
            similarities ==
              [j \in 1..N |-> cosine_similarity(self.scaled_features[idx],
                                                self.scaled_features[j])]
        IN  IF exclude_same_artist
            THEN
              LET mask == artist_mask(df, idx)
                  valid_indices == where(mask)
                  valid_similarities ==
                    [p \in 1..Len(valid_indices) |-> similarities[valid_indices[p]]]
                  top_indices_local ==
                    top_n(valid_similarities, n_recommendations, tie)
              IN  [p \in 1..Len(top_indices_local) |->
                     Recommendation(df, valid_indices[top_indices_local[p]],
                                    valid_similarities[top_indices_local[p]])]
            ELSE
              LET forced == force_seed(similarities, idx)
                  top_indices == top_n(forced, n_recommendations, tie)
              IN  [p \in 1..Len(top_indices) |->
                     Recommendation(df, top_indices[p], forced[top_indices[p]])]

\* variant: the -1 of line 102 lands in row idx of self.scaled_features
self_after_get_recommendations_aliased(self, track_id, exclude_same_artist) ==
  LET matches == track_matches(self.df, track_id)
      idx == CHOOSE i \in matches : \A j \in matches : i <= j
  IN  IF matches = {} \/ exclude_same_artist THEN self
      ELSE [self EXCEPT !.scaled_features[idx] =
                          [c \in 1..NF |-> 0 - self.scaler.den]]

\* the engine object after get_recommendations: lines 89-110 assign to
\* locals only (similarities and mask are arrays made by the call)
self_after_get_recommendations(self, track_id, exclude_same_artist) == self

\* features_dict.get(name, default)
Get(features_dict, name, default) ==
  IF name \in DOMAIN features_dict THEN features_dict[name] ELSE default

\* variant: danceability and energy written in each other's position
feature_vector_swapped(features_dict) ==
  << Get(features_dict, "energy", 10),
     Get(features_dict, "danceability", 10),
     Get(features_dict, "loudness", 0 - 10),
     Get(features_dict, "speechiness", 2),
     Get(features_dict, "acousticness", 10),
     Get(features_dict, "instrumentalness", 0),
     Get(features_dict, "liveness", 4),
     Get(features_dict, "valence", 10),
     Get(features_dict, "tempo", 120) >>

\* lines 125-135, values in the units of their columns
feature_vector(features_dict) ==
  << Get(features_dict, "danceability", 10),
     Get(features_dict, "energy", 10),
     Get(features_dict, "loudness", 0 - 10),
     Get(features_dict, "speechiness", 2),
     Get(features_dict, "acousticness", 10),
     Get(features_dict, "instrumentalness", 0),
     Get(features_dict, "liveness", 4),
     Get(features_dict, "valence", 10),
     Get(features_dict, "tempo", 120) >>

\* variant: the query vector is compared as it is, without scaler.transform
get_recommendations_by_features_unscaled(self, features_dict, n_recommendations, tie) ==
  LET df == self.df
      N  == Len(df)
      scaled_vector == feature_vector(features_dict)
      similarities ==
        [j \in 1..N |-> cosine_similarity(scaled_vector, self.scaled_features[j])]
      top_indices == top_n(similarities, n_recommendations, tie)
  IN  [p \in 1..Len(top_indices) |->
         Recommendation(df, top_indices[p], similarities[top_indices[p]])]

get_recommendations_by_features(self, features_dict, n_recommendations, tie) ==
  LET df == self.df
      N  == Len(df)
      scaled_vector == transform(self.scaler, feature_vector(features_dict))
      similarities ==
        [j \in 1..N |-> cosine_similarity(scaled_vector, self.scaled_features[j])]
      top_indices == top_n(similarities, n_recommendations, tie)
  IN  [p \in 1..Len(top_indices) |->
         Recommendation(df, top_indices[p], similarities[top_indices[p]])]

happy == <<"h","a","p","p","y">>
sad == <<"s","a","d">>
energetic == <<"e","n","e","r","g","e","t","i","c">>
chill == <<"c","h","i","l","l">>
party == <<"p","a","r","t","y">>
focus == <<"f","o","c","u","s">>

\* lines 186-191, one preset each; values in the units of their columns
\* (0.8 is 16 twentieths, tempo 140 is 140)
preset_happy ==
  [f \in {"valence", "energy", "danceability"} |->
     CASE f = "valence" -> 16 [] f = "energy" -> 14 [] f = "danceability" -> 14]
preset_sad ==
  [f \in {"valence", "energy", "acousticness"} |->
     CASE f = "valence" -> 4 [] f = "energy" -> 6 [] f = "acousticness" -> 12]
preset_energetic ==
  [f \in {"energy", "tempo", "danceability"} |->
     CASE f = "energy" -> 18 [] f = "tempo" -> 140 [] f = "danceability" -> 14]
preset_chill ==
  [f \in {"energy", "acousticness", "valence"} |->
     CASE f = "energy" -> 6 [] f = "acousticness" -> 14 [] f = "valence" -> 10]
preset_party ==
  [f \in {"danceability", "energy", "valence"} |->
     CASE f = "danceability" -> 18 [] f = "energy" -> 16 [] f = "valence" -> 14]
preset_focus ==
  [f \in {"instrumentalness", "speechiness", "energy"} |->
     CASE f = "instrumentalness" -> 14 [] f = "speechiness" -> 1
       [] f = "energy" -> 8]

\* variant: the happy and sad presets stored under each other's name
mood_presets_swapped ==
  [m \in {happy, sad, energetic, chill, party, focus} |->
     CASE m = happy     -> preset_sad
       [] m = sad       -> preset_happy
       [] m = energetic -> preset_energetic
       [] m = chill     -> preset_chill
       [] m = party     -> preset_party
       [] m = focus     -> preset_focus]

\* lines 185-192
mood_presets ==
  [m \in {happy, sad, energetic, chill, party, focus} |->
     CASE m = happy     -> preset_happy
       [] m = sad       -> preset_sad
       [] m = energetic -> preset_energetic
       [] m = chill     -> preset_chill
       [] m = party     -> preset_party
       [] m = focus     -> preset_focus]

\* variant: an unknown mood is answered with the default feature values
get_mood_based_recommendations_default(self, mood, n_recommendations, tie) ==
  IF Lower(mood) \notin DOMAIN mood_presets
  THEN get_recommendations_by_features(self, [f \in {} |-> 0], n_recommendations, tie)
  ELSE get_recommendations_by_features(self, mood_presets[Lower(mood)],
                                       n_recommendations, tie)

get_mood_based_recommendations(self, mood, n_recommendations, tie) ==
  IF Lower(mood) \notin DOMAIN mood_presets THEN <<>>
  ELSE get_recommendations_by_features(self, mood_presets[Lower(mood)],
                                       n_recommendations, tie)

\* lines 58-61: the row as a one-element list, the empty list for None
get_track_by_id(self, track_id) ==
  LET matches == track_matches(self.df, track_id)
  IN  IF matches = {} THEN <<>>
      ELSE <<self.df[CHOOSE i \in matches : \A j \in matches : i <= j]>>

\* popular[['track_id', 'track_name', 'artists', 'album_name', 'popularity',
\* 'genre']].to_dict('records')
TrackColumns(r) ==
  [track_id |-> r.track_id, track_name |-> r.track_name, artists |-> r.artists,
   album_name |-> r.album_name, popularity |-> r.popularity, genre |-> r.genre]

\* df.nlargest(n, 'popularity'): descending popularity, equal values in
\* frame order
nlargest(df, n) ==
  LET before(i, j) == \/ df[i].popularity > df[j].popularity
                      \/ df[i].popularity = df[j].popularity /\ i < j
      order == [p \in 1..Len(df) |->
                  CHOOSE i \in 1..Len(df) :
                    Cardinality({j \in 1..Len(df) : before(j, i)}) = p - 1]
  IN  Head_n([p \in 1..Len(df) |-> df[order[p]]], n)

get_popular_tracks(self, n_tracks) ==
  LET popular == nlargest(self.df, n_tracks)
  IN  [p \in 1..Len(popular) |-> TrackColumns(popular[p])]

\* variant: the stored genre is lower-cased before the comparison
genre_equals_folded(stored, genre) == Lower(stored) = Lower(genre)

\* self.df['genre'] == genre.lower()
genre_equals(stored, genre) == stored = Lower(genre)

\* lines 152-153
get_tracks_by_genre(self, genre, n_tracks) ==
  LET is_genre(r) == genre_equals(r.genre, genre)
  IN  Head_n(SelectSeq(self.df, is_genre), n_tracks)

\* the order of str values: by code point, a proper prefix first
Alphabet == <<" ", "(", ".">> \o UpperLetters \o LowerLetters

CodePoint(c) == CHOOSE i \in 1..Len(Alphabet) : Alphabet[i] = c

RECURSIVE StrLess(_, _)
StrLess(x, y) ==
  IF y = <<>> THEN FALSE
  ELSE IF x = <<>> THEN TRUE
  ELSE IF Head(x) # Head(y) THEN CodePoint(Head(x)) < CodePoint(Head(y))
  ELSE StrLess(Tail(x), Tail(y))

\* sorted(self.df['genre'].unique().tolist())
get_all_genres(self) ==
  LET genres == {self.df[i].genre : i \in 1..Len(self.df)}
  IN  [p \in 1..Cardinality(genres) |->
         CHOOSE g \in genres :
           Cardinality({h \in genres : StrLess(h, g)}) = p - 1]

\* Series.str.contains(pat) takes pat as a regular expression.  The patterns
\* modelled are made of letters, "." (any one character) and "(" (opens a
\* group that nothing closes).
\* re.compile(pat) succeeds
regex_compiles(pat) == \A i \in 1..Len(pat) : pat[i] # "("

\* variant: every character of the pattern stands for itself (regex=False)
regex_search_literal(pat, text) ==
  \E off \in 0..(Len(text) - Len(pat)) :
    \A i \in 1..Len(pat) : pat[i] = text[off + i]

\* re.search(pat, text) is not None, for a pattern that compiles
regex_search(pat, text) ==
  \E off \in 0..(Len(text) - Len(pat)) :
    \A i \in 1..Len(pat) : pat[i] = "." \/ pat[i] = text[off + i]

\* lines 166-171: the exception that leaves the call and the list returned
search_tracks(self, query) ==
  LET q == Lower(query)
      hit(r) == \/ regex_search(q, Lower(r.track_name))
                \/ regex_search(q, Lower(r.artists))
  IN  IF ~regex_compiles(q) THEN [raised |-> "re.error", rows |-> <<>>]
      ELSE [raised |-> "none", rows |-> SelectSeq(self.df, hit)]

\* app.py line 1042: if search_query and len(search_query) >= 2
by_song_gate(search_query) == search_query # <<>> /\ Len(search_query) >= 2

\* variant: the search box is not tested
search_gate_open(search_query) == TRUE

\* app.py line 1203: if search_query
search_gate(search_query) == search_query # <<>>

\* ------------------------------------------------------------ the inputs
FeaturesA == <<20, 20, 0 - 20, 0, 0, 0, 0, 0, 100>>
FeaturesB == <<0, 0, 0, 20, 20, 20, 20, 20, 140>>
FeaturesE == <<10, 10, 0 - 10, 2, 10, 0, 4, 10, 120>>

Cells(f) == [c \in 1..NF |-> Cell(f[c])]

\* the csv rows a source file is made of
RowPool ==
  { [track_id |-> "a", track_name |-> <<"A","l","p","h","a">>, artists |-> <<"X","y">>,
     album_name |-> <<"O","n","e">>, track_genre |-> <<"p","o","p">>, features |-> Cells(FeaturesA), popularity |-> 50],
    [track_id |-> "b", track_name |-> <<"B","e","t","a">>, artists |-> <<"Z","e","d">>,
     album_name |-> <<"T","w","o">>, track_genre |-> <<"R","o","c","k">>, features |-> Cells(FeaturesB), popularity |-> 70],
    [track_id |-> "c", track_name |-> <<"G","a","m","m","a">>, artists |-> <<"X","y">>,
     album_name |-> NaNText, track_genre |-> <<"p","o","p">>, features |-> Cells(FeaturesA), popularity |-> 50],
    [track_id |-> "d", track_name |-> <<"D","e","l","t","a">>, artists |-> <<"x","y">>,
     album_name |-> <<"T","w","o">>, track_genre |-> NaNText, features |-> Cells(FeaturesB), popularity |-> 10],
    [track_id |-> "a", track_name |-> NaNText, artists |-> NaNText,
     album_name |-> <<"T","w","o">>, track_genre |-> <<"j","a","z","z">>,
     features |-> [Cells(FeaturesE) EXCEPT ![4] = BadCell],
     popularity |-> 90] }

\* the source files: up to MaxRows rows of the pool, in any order, no row
\* listed twice (two rows may still carry the same track_id)
RECURSIVE SeqsUpTo(_, _)
SeqsUpTo(S, n) ==
  IF n = 0 THEN {<<>>}
  ELSE LET shorter == SeqsUpTo(S, n - 1)
       IN  shorter \cup
           {Append(q, x) : q \in {t \in shorter : Len(t) = n - 1},
                           x \in S}

NoRepeat(q) == \A i, j \in 1..Len(q) : i # j => q[i] # q[j]

RowSeqs == {q \in SeqsUpTo(RowPool, MaxRows) : NoRepeat(q)}

CsvFile(rows) == [readable |-> TRUE, columns |-> CsvColumns, rows |-> rows]

\* a file that cannot be read
UnreadableFile == [readable |-> FALSE, columns |-> {}, rows |-> <<>>]

\* files that lack one column
FilesLackingAColumn ==
  {[readable |-> TRUE, columns |-> CsvColumns \ {c}, rows |-> <<r>>] :
     c \in CsvColumns,
     r \in {x \in RowPool : x.track_id = "b"}}

Sources ==
  {CsvFile(q) : q \in RowSeqs} \cup {UnreadableFile} \cup FilesLackingAColumn

TrackIds == {"a", "b", "c", "d", "zz"}

Ks == 0..MaxK

EmptyDict == [f \in {} |-> 0]

NameOf(c) == AUDIO_FEATURES[c]

\* the full mapping that names every column with the values of v
FullDict(v) ==
  [f \in {NameOf(c) : c \in 1..NF} |-> v[CHOOSE c \in 1..NF : NameOf(c) = f]]

FeatureDicts ==
  { EmptyDict,
    [f \in {"tempo"} |-> 200],
    [f \in {"loudness", "mode"} |-> 0 - 40],
    [f \in {"danceability", "energy"} |-> IF f = "energy" THEN 20 ELSE 0],
    FullDict(FeaturesA),
    FullDict(FeaturesB),
    FullDict([FeaturesE EXCEPT ![4] = 0]),
    FullDict(<<0, 0, 0 - 20, 0, 0, 0, 0, 0, 100>>),
    FullDict(<<1, 2, 3, 4, 5, 6, 7, 8, 9>>) }

Moods ==
  { happy, sad, energetic, chill, party, focus,
    <<"H","A","P","P","Y">>, <<"S","a","d">>, <<"F","o","C","u","S">>, <<"e","u","p","h","o","r","i","c">>, <<>> }

\* the texts typed in a search box
Queries ==
  { <<>>, <<"a">>, <<"x","y">>, <<"A","l">>, <<".">>, <<"a",".","p">>, <<"(">>, <<"z","e">> }

\* the genre names asked for
Genres == { <<"p","o","p">>, <<"P","O","P">>, <<"r","o","c","k">>, <<"R","o","c","k">>, <<"u","n","k","n","o","w","n">> }

\* ------------------------------------------------------------- the state
VARIABLES
  source,       \* spotify_full.csv: readable or not, its columns, its rows
  tie,          \* the order this build's argsort leaves equal keys in
  cached_df,    \* data/loader.py _cached_df
  recommender,  \* the MusicRecommender object
  call,         \* the last operation and its arguments
  result,       \* the list it returned
  raised,       \* the exception it raised, "none" if it returned
  threads,      \* concurrent script runs: where each is, what it holds
  lock,         \* holder of st.cache_resource's compute lock, 0 if free
  resource,     \* the engine object st.cache_resource holds, 0 if none
  ids           \* the frame and engine objects created so far

cvars == <<threads, lock, resource, ids>>

vars ==
  <<source, tie, cached_df, recommender, call, result, raised,
    threads, lock, resource, ids>>

\* the number of concurrent script runs
NThreads == 3

Threads == 1..NThreads

\* a script run entering main()
NewThread ==
  [pc |-> "get_recommender", in_init |-> FALSE, missed |-> FALSE,
   df |-> 0, engine |-> 0]

\* no frame read, no engine built, _cached_df is None
NoObjects == [reads |-> 0, fits |-> 0, cached |-> 0, df_of |-> <<>>]

NoCall ==
  [op |-> "none", track_id |-> "", n |-> 0, exclude_same_artist |-> FALSE,
   features_dict |-> EmptyDict, mood |-> <<>>, query |-> <<>>,
   genre |-> <<>>, mode |-> "none", read |-> FALSE]

Init ==
  /\ source \in Sources
  /\ tie \in TieOrders
  /\ cached_df = NoCache
  /\ recommender = NoRecommender
  /\ call = NoCall
  /\ result = <<>>
  /\ raised = "none"
  /\ threads = [t \in Threads |-> NewThread]
  /\ lock = 0
  /\ resource = 0
  /\ ids = NoObjects

\* create_recommender(): MusicRecommender().  fit_transform raises
\* ValueError on a matrix with no rows (sklearn check_array:
\* "Found array with 0 sample(s)"), after load_full_dataset has set the cache
CreateRecommender ==
  LET loaded == load_full_dataset(cached_df, source)
  IN  /\ call.op = "none"
      /\ cached_df' = loaded.cache
      /\ call' = [NoCall EXCEPT !.op = "create_recommender",
                                !.read = loaded.read]
      /\ result' = <<>>
      /\ IF loaded.raised # "none"
         THEN /\ raised' = loaded.raised
              /\ UNCHANGED recommender
         ELSE IF Len(loaded.df) = 0
         THEN /\ raised' = "ValueError"
              /\ UNCHANGED recommender
         ELSE /\ raised' = "none"
              /\ recommender' = MusicRecommender(loaded.df)
      /\ UNCHANGED <<source, tie>>
      /\ UNCHANGED cvars

\* get_dataset_stats()
GetDatasetStats ==
  LET loaded == load_full_dataset(cached_df, source)
  IN  /\ call.op = "none"
      /\ cached_df' = loaded.cache
      /\ call' = [NoCall EXCEPT !.op = "get_dataset_stats",
                                !.read = loaded.read]
      /\ raised' = loaded.raised
      /\ result' = IF loaded.raised # "none" THEN <<>>
                   ELSE <<dataset_stats(loaded.df)>>
      /\ UNCHANGED <<source, tie, recommender>>
      /\ UNCHANGED cvars

GetRecommendations ==
  /\ call.op = "none"
  /\ recommender.built
  /\ \E track_id \in TrackIds, n \in Ks, excl \in BOOLEAN :
       /\ call' = [NoCall EXCEPT !.op = "get_recommendations",
                     !.track_id = track_id, !.n = n,
                     !.exclude_same_artist = excl]
       /\ result' = get_recommendations(recommender, track_id, n, excl, tie)
       /\ recommender' = self_after_get_recommendations(recommender, track_id, excl)
  /\ raised' = "none"
  /\ UNCHANGED <<source, tie, cached_df>>
  /\ UNCHANGED cvars

GetRecommendationsByFeatures ==
  /\ call.op = "none"
  /\ recommender.built
  /\ \E features_dict \in FeatureDicts, n \in Ks :
       /\ call' = [NoCall EXCEPT !.op = "get_recommendations_by_features",
                     !.features_dict = features_dict, !.n = n]
       /\ result' = get_recommendations_by_features(recommender, features_dict, n, tie)
  /\ raised' = "none"
  /\ UNCHANGED <<source, tie, cached_df, recommender>>
  /\ UNCHANGED cvars

GetMoodBasedRecommendations ==
  /\ call.op = "none"
  /\ recommender.built
  /\ \E mood \in Moods, n \in Ks :
       /\ call' = [NoCall EXCEPT !.op = "get_mood_based_recommendations",
                     !.mood = mood, !.n = n]
       /\ result' = get_mood_based_recommendations(recommender, mood, n, tie)
  /\ raised' = "none"
  /\ UNCHANGED <<source, tie, cached_df, recommender>>
  /\ UNCHANGED cvars

GetTrackById ==
  /\ call.op = "none"
  /\ recommender.built
  /\ \E track_id \in TrackIds :
       /\ call' = [NoCall EXCEPT !.op = "get_track_by_id", !.track_id = track_id]
       /\ result' = get_track_by_id(recommender, track_id)
  /\ raised' = "none"
  /\ UNCHANGED <<source, tie, cached_df, recommender>>
  /\ UNCHANGED cvars

GetTracksByGenre ==
  /\ call.op = "none"
  /\ recommender.built
  /\ \E genre \in Genres, n \in Ks :
       /\ call' = [NoCall EXCEPT !.op = "get_tracks_by_genre",
                     !.genre = genre, !.n = n]
       /\ result' = get_tracks_by_genre(recommender, genre, n)
  /\ raised' = "none"
  /\ UNCHANGED <<source, tie, cached_df, recommender>>
  /\ UNCHANGED cvars

\* app.py lines 1040-1053, the "By Song" mode: the text of the search box
\* goes to search_tracks (first 100 results) or the popular tracks are listed
BySongMode ==
  /\ call.op = "none"
  /\ recommender.built
  /\ \E search_query \in Queries :
       IF by_song_gate(search_query)
       THEN LET found == search_tracks(recommender, search_query)
            IN  /\ call' = [NoCall EXCEPT !.op = "search_tracks",
                              !.query = search_query, !.mode = "by_song"]
                /\ raised' = found.raised
                /\ result' = Head_n(found.rows, 100)
       ELSE /\ call' = [NoCall EXCEPT !.op = "get_popular_tracks",
                          !.query = search_query, !.mode = "by_song",
                          !.n = 200]
            /\ raised' = "none"
            /\ result' = get_popular_tracks(recommender, 200)
  /\ UNCHANGED <<source, tie, cached_df, recommender>>
  /\ UNCHANGED cvars

\* app.py lines 1197-1226, the "Search" mode: the text of the search box goes
\* to search_tracks; with an empty box the genres are listed and the tracks
\* of the genre picked from that list, if one was picked, are shown
SearchMode ==
  /\ call.op = "none"
  /\ recommender.built
  /\ \E search_query \in Queries :
       IF search_gate(search_query)
       THEN LET found == search_tracks(recommender, search_query)
            IN  /\ call' = [NoCall EXCEPT !.op = "search_tracks",
                              !.query = search_query, !.mode = "search"]
                /\ raised' = found.raised
                /\ result' = found.rows
       ELSE LET genres == get_all_genres(recommender)
            IN  /\ raised' = "none"
                /\ \/ /\ call' = [NoCall EXCEPT !.op = "get_all_genres",
                                      !.query = search_query, !.mode = "search"]
                      /\ result' = genres
                   \/ \E p \in 1..Len(genres) :
                        /\ call' = [NoCall EXCEPT !.op = "get_tracks_by_genre",
                                      !.query = search_query, !.mode = "search",
                                      !.genre = genres[p], !.n = 20]
                        /\ result' = get_tracks_by_genre(recommender, genres[p], 20)
  /\ UNCHANGED <<source, tie, cached_df, recommender>>
  /\ UNCHANGED cvars

\* the caller is done with the returned list: main() in app.py keeps it in
\* locals of one script run
Return ==
  /\ call.op # "none"
  /\ call' = NoCall
  /\ result' = <<>>
  /\ raised' = "none"
  /\ UNCHANGED <<source, tie, cached_df, recommender>>
  /\ UNCHANGED cvars

Next ==
  \/ CreateRecommender
  \/ GetDatasetStats
  \/ GetRecommendations
  \/ GetRecommendationsByFeatures
  \/ GetMoodBasedRecommendations
  \/ GetTrackById
  \/ GetTracksByGenre
  \/ BySongMode
  \/ SearchMode
  \/ Return

Spec == Init /\ [][Next]_vars

\* ------------------------------------------- concurrent script runs
\* Streamlit runs main() of app.py once per session interaction, each run
\* on its own thread of the one server process.  What the runs share is
\* the module global _cached_df and the cache behind @st.cache_resource.

\* @st.cache_resource (streamlit CachedFunc._handle_cache_miss): the
\* function body runs under "with cache.compute_value_lock(value_key)",
\* which a thread enters only when no other thread holds it
\* variant: the body runs without mutual exclusion
lock_free_always(holder) == TRUE

lock_free(holder) == holder = 0

\* what load_full_dataset makes of the file when the cache is unset
Loaded == load_full_dataset(NoCache, source)

\* where a thread goes when its load_full_dataset call returns:
\* MusicRecommender.__init__ goes on to _prepare_features, main() is done
\* with get_dataset_stats
after_load(th) == IF th.in_init THEN "fit" ELSE "done"

\* the exception leaves the script run; the with-statement frees the lock
Raise(t) ==
  /\ threads' = [threads EXCEPT ![t].pc = "failed"]
  /\ lock' = IF threads[t].in_init THEN 0 ELSE lock

\* get_recommender(): CachedFunc._get_or_create_cached_value reads the
\* cache without the lock; on a hit main() goes on to get_dataset_stats
CacheLookup(t) ==
  /\ threads[t].pc = "get_recommender"
  /\ threads' = [threads EXCEPT ![t] =
       IF resource # 0
       THEN [@ EXCEPT !.engine = resource, !.pc = "load_check"]
       ELSE [@ EXCEPT !.missed = TRUE, !.pc = "acquire"]]
  /\ UNCHANGED <<source, tie, cached_df, recommender, call, result, raised,
                 lock, resource, ids>>

\* with cache.compute_value_lock(value_key):
AcquireLock(t) ==
  /\ threads[t].pc = "acquire"
  /\ lock_free(lock)
  /\ lock' = t
  /\ threads' = [threads EXCEPT ![t].pc = "recheck"]
  /\ UNCHANGED <<source, tie, cached_df, recommender, call, result, raised,
                 resource, ids>>

\* under the lock the cache is read again; on a miss create_recommender()
\* starts: MusicRecommender.__init__ calls load_full_dataset()
Recheck(t) ==
  /\ threads[t].pc = "recheck"
  /\ IF resource # 0
     THEN /\ threads' = [threads EXCEPT ![t].engine = resource,
                                        ![t].pc = "load_check"]
          /\ lock' = 0
     ELSE /\ threads' = [threads EXCEPT ![t].in_init = TRUE,
                                        ![t].pc = "load_check"]
          /\ UNCHANGED lock
  /\ UNCHANGED <<source, tie, cached_df, recommender, call, result, raised,
                 resource, ids>>

\* load_full_dataset: if _cached_df is not None: return _cached_df
LoadCheck(t) ==
  /\ threads[t].pc = "load_check"
  /\ threads' = [threads EXCEPT ![t] =
       IF ids.cached # 0
       THEN [@ EXCEPT !.df = ids.cached, !.pc = after_load(threads[t])]
       ELSE [@ EXCEPT !.pc = "read_csv"]]
  /\ UNCHANGED <<source, tie, cached_df, recommender, call, result, raised,
                 lock, resource, ids>>

\* load_full_dataset: pd.read_csv and the cleaning make a new frame
ReadCsv(t) ==
  /\ threads[t].pc = "read_csv"
  /\ IF Loaded.raised # "none"
     THEN /\ Raise(t)
          /\ UNCHANGED ids
     ELSE /\ ids' = [ids EXCEPT !.reads = @ + 1]
          /\ threads' = [threads EXCEPT ![t].df = ids.reads + 1,
                                        ![t].pc = "assign_cache"]
          /\ UNCHANGED lock
  /\ UNCHANGED <<source, tie, cached_df, recommender, call, result, raised,
                 resource>>

\* load_full_dataset: _cached_df = df; return df
AssignCache(t) ==
  /\ threads[t].pc = "assign_cache"
  /\ ids' = [ids EXCEPT !.cached = threads[t].df]
  /\ cached_df' = Loaded.cache
  /\ threads' = [threads EXCEPT ![t].pc = after_load(threads[t])]
  /\ UNCHANGED <<source, tie, recommender, call, result, raised,
                 lock, resource>>

\* MusicRecommender.__init__ after the load: _prepare_features fits the
\* scaler on self.df; fit_transform raises ValueError on a frame of 0 rows
Fit(t) ==
  /\ threads[t].pc = "fit"
  /\ IF Len(Loaded.df) = 0
     THEN /\ Raise(t)
          /\ UNCHANGED ids
     ELSE /\ ids' = [ids EXCEPT !.fits = @ + 1,
                                !.df_of = Append(@, threads[t].df)]
          /\ threads' = [threads EXCEPT ![t].engine = ids.fits + 1,
                                        ![t].pc = "store"]
          /\ UNCHANGED lock
  /\ UNCHANGED <<source, tie, cached_df, recommender, call, result, raised,
                 resource>>

\* get_recommender returns: cache.write_result stores the engine, the lock
\* is freed, main() goes on to get_dataset_stats()
Store(t) ==
  /\ threads[t].pc = "store"
  /\ resource' = threads[t].engine
  /\ recommender' = MusicRecommender(Loaded.df)
  /\ lock' = 0
  /\ threads' = [threads EXCEPT ![t].in_init = FALSE,
                                ![t].pc = "load_check"]
  /\ UNCHANGED <<source, tie, cached_df, call, result, raised, ids>>

\* the files the concurrent runs start from: at most one row, or unreadable
ConcurrentSources ==
  {CsvFile(q) : q \in {r \in RowSeqs : Len(r) <= 1}} \cup {UnreadableFile}

InitConcurrent ==
  /\ source \in ConcurrentSources
  /\ tie \in TieOrders
  /\ cached_df = NoCache
  /\ recommender = NoRecommender
  /\ call = NoCall
  /\ result = <<>>
  /\ raised = "none"
  /\ threads = [t \in Threads |-> NewThread]
  /\ lock = 0
  /\ resource = 0
  /\ ids = NoObjects

NextConcurrent ==
  \E t \in Threads :
    \/ CacheLookup(t)
    \/ AcquireLock(t)
    \/ Recheck(t)
    \/ LoadCheck(t)
    \/ ReadCsv(t)
    \/ AssignCache(t)
    \/ Fit(t)
    \/ Store(t)

SpecConcurrent == InitConcurrent /\ [][NextConcurrent]_vars

\* ======================================================== properties
Catalog == recommender.df

CatalogSize == Len(Catalog)

InCatalog(id) == \E i \in 1..CatalogSize : Catalog[i].track_id = id

RowOf(id) == CHOOSE i \in 1..CatalogSize : Catalog[i].track_id = id

Returned(op) == call.op = op /\ raised = "none"

ResultIds == {result[p].track_id : p \in 1..Len(result)}

\* the rows other than the seed that carry the seed's artists value
SameArtistOthers(id) ==
  {j \in 1..CatalogSize : j # RowOf(id)
                          /\ Catalog[j].artists = Catalog[RowOf(id)].artists}

\* C1: for a seed of the catalog and 1 <= K <= catalog_size - 1, with either
\* value of exclude_same_artist, the list get_recommendations returns does
\* not contain the seed.
C1_SeedNotRecommended ==
  (/\ Returned("get_recommendations")
   /\ InCatalog(call.track_id)
   /\ 1 <= call.n /\ call.n <= CatalogSize - 1)
  => call.track_id \notin ResultIds

\* the largest K of the claim, answered with K rows, no artist filter
C1_Witness ==
  /\ Returned("get_recommendations")
  /\ InCatalog(call.track_id)
  /\ ~call.exclude_same_artist
  /\ call.n = CatalogSize - 1
  /\ Len(result) = call.n
  /\ call.n >= 2

\* C2: with exclude_same_artist = True, get_recommendations returns no row
\* whose artists value equals the seed's artists value, for every seed and K.
C2_NoSameArtist ==
  (/\ Returned("get_recommendations")
   /\ InCatalog(call.track_id)
   /\ call.exclude_same_artist)
  => \A p \in 1..Len(result) :
       result[p].artists # Catalog[RowOf(call.track_id)].artists

\* another row has the seed's artists, K asks for more rows than are left
C2_Witness ==
  /\ Returned("get_recommendations")
  /\ InCatalog(call.track_id)
  /\ call.exclude_same_artist
  /\ SameArtistOthers(call.track_id) # {}
  /\ Len(result) >= 1
  /\ call.n > Len(result)

\* C3 (as claimed): for a seed of the catalog and K >= 0 the result has
\* min(K, catalog_size - 1) rows without the artist filter and
\* min(K, catalog_size - 1 - rows sharing the seed's artists) rows with it.
C3_ResultLength ==
  (/\ Returned("get_recommendations")
   /\ InCatalog(call.track_id))
  => Len(result) =
       IF call.exclude_same_artist
       THEN Min2(call.n, CatalogSize - 1
                         - Cardinality(SameArtistOthers(call.track_id)))
       ELSE Min2(call.n, CatalogSize - 1)

RecommendOps ==
  {"get_recommendations", "get_recommendations_by_features",
   "get_mood_based_recommendations"}

\* C4: in the result of get_recommendations, get_recommendations_by_features
\* and get_mood_based_recommendations the similarity_score values are
\* non-increasing by position.
C4_ScoresNonIncreasing ==
  (call.op \in RecommendOps /\ raised = "none")
  => \A p \in 1..(Len(result) - 1) :
       result[p].similarity_score >= result[p + 1].similarity_score

\* three rows with three different scores
C4_Witness ==
  /\ Returned("get_mood_based_recommendations")
  /\ Len(result) >= 3
  /\ result[1].similarity_score > result[2].similarity_score
  /\ result[2].similarity_score > result[3].similarity_score

\* the scaled vector the current call compares the catalog rows with
CallVector ==
  IF call.op = "get_recommendations"
  THEN recommender.scaled_features[RowOf(call.track_id)]
  ELSE IF call.op = "get_recommendations_by_features"
  THEN transform(recommender.scaler, feature_vector(call.features_dict))
  ELSE transform(recommender.scaler, feature_vector(mood_presets[Lower(call.mood)]))

\* the similarity of catalog row j to the seed or query vector
CallSim(j) == cosine_similarity(CallVector, recommender.scaled_features[j])

\* the rows the current call ranks
Candidates ==
  IF call.op = "get_recommendations"
  THEN {j \in 1..CatalogSize :
          /\ j # RowOf(call.track_id)
          /\ call.exclude_same_artist
               => Catalog[j].artists # Catalog[RowOf(call.track_id)].artists}
  ELSE 1..CatalogSize

\* the current call ranks rows: its seed or mood is a known one
Ranks ==
  \/ Returned("get_recommendations") /\ InCatalog(call.track_id)
  \/ Returned("get_recommendations_by_features")
  \/ Returned("get_mood_based_recommendations")
       /\ Lower(call.mood) \in DOMAIN mood_presets

\* C5 (as claimed): candidate rows of equal similarity are ranked in catalog
\* row order, and when the top K cuts through a group of equal rows the ones
\* with the smaller catalog indices are selected.
C5_TiesInCatalogOrder ==
  Ranks =>
    /\ \A p, q \in 1..Len(result) :
         (/\ p < q
          /\ RowOf(result[p].track_id) \in Candidates
          /\ RowOf(result[q].track_id) \in Candidates
          /\ CallSim(RowOf(result[p].track_id)) = CallSim(RowOf(result[q].track_id)))
         => RowOf(result[p].track_id) < RowOf(result[q].track_id)
    /\ \A p \in 1..Len(result) : \A j \in Candidates :
         (/\ RowOf(result[p].track_id) \in Candidates
          /\ Catalog[j].track_id \notin ResultIds
          /\ CallSim(j) = CallSim(RowOf(result[p].track_id)))
         => RowOf(result[p].track_id) < j

\* C6: get_recommendations with a track_id that is not in the catalog returns
\* an empty list and raises nothing, and the call leaves the catalog, the
\* scaler and the normalized matrix as they were.
C6_UnknownIdEmpty ==
  /\ [](call.op = "get_recommendations" /\ ~InCatalog(call.track_id)
          => result = <<>> /\ raised = "none")
  /\ [][call'.op = "get_recommendations"
          => recommender' = recommender /\ cached_df' = cached_df]_vars

\* an unknown id asked with K >= 1 over a catalog of two rows or more
C6_Witness ==
  /\ Returned("get_recommendations")
  /\ ~InCatalog(call.track_id)
  /\ call.n >= 1
  /\ CatalogSize >= 2
  /\ result = <<>>

\* the six preset names of the specification
SixPresets ==
  { <<"h","a","p","p","y">>, <<"s","a","d">>,
    <<"e","n","e","r","g","e","t","i","c">>, <<"c","h","i","l","l">>,
    <<"p","a","r","t","y">>, <<"f","o","c","u","s">> }

\* C7: get_mood_based_recommendations with a mood that, lower-cased, is none
\* of the six presets returns an empty list and raises nothing, for every K.
C7_UnknownMoodEmpty ==
  (call.op = "get_mood_based_recommendations" /\ Lower(call.mood) \notin SixPresets)
  => result = <<>> /\ raised = "none"

\* an unknown, non-empty mood asked with K >= 1 over a non-empty catalog
C7_Witness ==
  /\ Returned("get_mood_based_recommendations")
  /\ Lower(call.mood) \notin SixPresets
  /\ call.mood # <<>>
  /\ call.n >= 1
  /\ CatalogSize >= 1
  /\ result = <<>>

\* the preset table of the specification: <<mood, field, hundredths>>
SpecPresetTable ==
  { <<"happy", "valence", 80>>, <<"happy", "energy", 70>>,
    <<"happy", "danceability", 70>>,
    <<"sad", "valence", 20>>, <<"sad", "energy", 30>>,
    <<"sad", "acousticness", 60>>,
    <<"energetic", "energy", 90>>, <<"energetic", "tempo", 14000>>,
    <<"energetic", "danceability", 70>>,
    <<"chill", "energy", 30>>, <<"chill", "acousticness", 70>>,
    <<"chill", "valence", 50>>,
    <<"party", "danceability", 90>>, <<"party", "energy", 80>>,
    <<"party", "valence", 70>>,
    <<"focus", "instrumentalness", 70>>, <<"focus", "speechiness", 5>>,
    <<"focus", "energy", 40>> }

MoodKey(m) ==
  CASE m = <<"h","a","p","p","y">> -> "happy"
    [] m = <<"s","a","d">> -> "sad"
    [] m = <<"e","n","e","r","g","e","t","i","c">> -> "energetic"
    [] m = <<"c","h","i","l","l">> -> "chill"
    [] m = <<"p","a","r","t","y">> -> "party"
    [] m = <<"f","o","c","u","s">> -> "focus"

ColumnOf(f) == CHOOSE c \in 1..NF : AUDIO_FEATURES[c] = f

\* hundredths of 1.0 written in the units of column f
InUnits(f, hundredths) == (hundredths * UnitsPerOne[ColumnOf(f)]) \div 100

preset_of(m) ==
  [f \in {t[2] : t \in {u \in SpecPresetTable : u[1] = MoodKey(m)}} |->
     InUnits(f, (CHOOSE t \in SpecPresetTable : t[1] = MoodKey(m) /\ t[2] = f)[3])]

\* C8: for a preset mood name in any letter case and every K,
\* get_mood_based_recommendations(mood, K) returns exactly what
\* get_recommendations_by_features(preset_of(mood), K) returns, preset_of
\* being the table of the specification.
C8_MoodDelegates ==
  (call.op = "get_mood_based_recommendations" /\ Lower(call.mood) \in SixPresets)
  => /\ raised = "none"
     /\ result = get_recommendations_by_features(
                   recommender, preset_of(Lower(call.mood)), call.n, tie)

\* a preset written with capital letters, answered with two rows or more
C8_Witness ==
  /\ Returned("get_mood_based_recommendations")
  /\ Lower(call.mood) \in SixPresets
  /\ call.mood # Lower(call.mood)
  /\ Len(result) >= 2

\* the documented defaults: <<field, hundredths>>
DocumentedDefaults ==
  { <<"danceability", 50>>, <<"energy", 50>>, <<"loudness", 0 - 1000>>,
    <<"speechiness", 10>>, <<"acousticness", 50>>,
    <<"instrumentalness", 0>>, <<"liveness", 20>>, <<"valence", 50>>,
    <<"tempo", 12000>> }

DefaultOf(f) == InUnits(f, (CHOOSE t \in DocumentedDefaults : t[1] = f)[2])

\* the full mapping: every absent field filled with its documented default
Filled(d) ==
  [f \in {t[1] : t \in DocumentedDefaults} |->
     IF f \in DOMAIN d THEN d[f] ELSE DefaultOf(f)]

\* C9: get_recommendations_by_features on a partial mapping returns what it
\* returns on the mapping with every absent field filled with its documented
\* default, and each named value sits at the position of the same-named
\* column of the catalog feature matrix.
C9_DefaultsAndPositions ==
  call.op = "get_recommendations_by_features"
  => /\ raised = "none"
     /\ result = get_recommendations_by_features(
                   recommender, Filled(call.features_dict), call.n, tie)
     /\ \A c \in 1..NF :
          feature_vector(call.features_dict)[c]
            = Filled(call.features_dict)[get_audio_features_columns[c]]

\* a partial mapping that names danceability and energy with different
\* values and leaves the other seven fields out
C9_Witness ==
  /\ Returned("get_recommendations_by_features")
  /\ DOMAIN call.features_dict = {"danceability", "energy"}
  /\ call.features_dict["danceability"] # call.features_dict["energy"]
  /\ Len(result) >= 2

\* C10 (as claimed): when the source has zero rows left after cleaning, no
\* error is raised from engine construction to the return of
\* get_recommendations_by_features, which yields an empty sequence.
C10_EmptyCatalogNoError ==
  (/\ source.readable
   /\ RequiredColumns \subseteq source.columns
   /\ Len(CleanDataset(source.rows)) = 0)
  => /\ raised = "none"
     /\ call.op = "get_recommendations_by_features" => result = <<>>

\* the query operations of the engine
QueryOps ==
  {"search_tracks", "get_tracks_by_genre", "get_track_by_id",
   "get_recommendations", "get_recommendations_by_features",
   "get_mood_based_recommendations"}

\* C11 (as claimed): every query operation of the engine returns a value and
\* never raises, for any string as query, genre, id or mood, any K >= 0 and
\* any mapping of feature names to numbers.
C11_QueriesNeverRaise ==
  call.op \in QueryOps => raised = "none"

\* C12: after construction no query operation changes the catalog table, the
\* normalized matrix or the fitted transform: the engine stays what the
\* construction made of the cached catalog, every query step leaves engine
\* and cache as they were, and the list a recommendation returned is the one
\* the same request gives on the state it left behind.
C12_QueriesReadOnly ==
  /\ [](recommender.built =>
          /\ recommender = MusicRecommender(cached_df.df)
          /\ (Returned("get_recommendations") =>
                result = get_recommendations(recommender, call.track_id, call.n,
                                             call.exclude_same_artist, tie)))
  /\ [][recommender.built /\ call'.op \notin {"create_recommender", "none"}
          => recommender' = recommender /\ cached_df' = cached_df]_vars

\* a seed-based request that ranked every other row of a three-row catalog
C12_Witness ==
  /\ Returned("get_recommendations")
  /\ InCatalog(call.track_id)
  /\ ~call.exclude_same_artist
  /\ CatalogSize >= 3
  /\ Len(result) >= 2

\* C14: in a sequential run, once a load has succeeded every later call of
\* load_full_dataset (from get_dataset_stats or from another MusicRecommender
\* construction) returns the cached catalog and does not read the file again.
C14_LoadOnce ==
  [][cached_df.set /\ call'.op \in {"create_recommender", "get_dataset_stats"}
       => /\ ~call'.read
          /\ cached_df' = cached_df
          /\ (call'.op = "create_recommender" /\ raised' = "none"
                => recommender'.df = cached_df.df)
          /\ (call'.op = "get_dataset_stats"
                => raised' = "none" /\ result' = <<dataset_stats(cached_df.df)>>)]_vars

\* a second construction: the engine existed already and nothing was read
C14_Witness ==
  /\ Returned("create_recommender")
  /\ recommender.built
  /\ cached_df.set
  /\ ~call.read
  /\ CatalogSize >= 2

\* the first row of the file that carries the id of catalog row j
FirstSourceRow(j) ==
  CHOOSE i \in 1..Len(source.rows) :
    /\ source.rows[i].track_id = cached_df.df[j].track_id
    /\ \A k \in 1..(i - 1) : source.rows[k].track_id # cached_df.df[j].track_id

\* C15: in the loaded catalog every track_id occurs once, the row of an id is
\* the first row of the file with that id, rows keep the file's order, and
\* row j of the normalized matrix is the transform of catalog row j.
C15_UniqueFirstAligned ==
  /\ cached_df.set =>
       LET df == cached_df.df
       IN  /\ \A i, j \in 1..Len(df) : i # j => df[i].track_id # df[j].track_id
           /\ \A j \in 1..Len(df) :
                /\ \E i \in 1..Len(source.rows) :
                     source.rows[i].track_id = df[j].track_id
                /\ df[j] = CleanRow(source.rows[FirstSourceRow(j)])
           /\ \A i, j \in 1..Len(df) :
                i < j => FirstSourceRow(i) < FirstSourceRow(j)
  /\ recommender.built =>
       /\ recommender.df = cached_df.df
       /\ Len(recommender.scaled_features) = Len(recommender.df)
       /\ \A j \in 1..Len(recommender.df) :
            recommender.scaled_features[j]
              = transform(recommender.scaler,
                          [c \in 1..NF |-> recommender.df[j].features[c].v])

\* the file lists an id twice with different rows, the engine is built
C15_Witness ==
  /\ recommender.built
  /\ CatalogSize >= 2
  /\ \E i, k \in 1..Len(source.rows) :
       /\ i < k
       /\ source.rows[i].track_id = source.rows[k].track_id
       /\ source.rows[i].features # source.rows[k].features

\* C16 (as claimed): a file row in which a feature field is missing or
\* unparseable does not appear in the loaded catalog.
C16_BadRowsDropped ==
  cached_df.set =>
    \A i \in 1..Len(source.rows) :
      (\E c \in 1..NF : ~source.rows[i].features[c].num)
      => \A j \in 1..Len(cached_df.df) :
           cached_df.df[j].track_id = source.rows[i].track_id
           => FirstSourceRow(j) # i

\* the columns the claim names: identifier, name, attribution, grouping,
\* category and the 9 features
NamedColumns ==
  {"track_id", "track_name", "artists", "album_name", "track_genre",
   "danceability", "energy", "loudness", "speechiness", "acousticness",
   "instrumentalness", "liveness", "valence", "tempo"}

Unloadable == ~source.readable \/ ~(NamedColumns \subseteq source.columns)

\* C17: when the file is unreadable or lacks one of the named columns,
\* load_full_dataset fails with the load error (the exception of pd.read_csv
\* or the KeyError of the missing column) and the cache stays unset.
C17_LoadFails ==
  Unloadable =>
    /\ ~cached_df.set
    /\ ~recommender.built
    /\ call.op \in {"create_recommender", "get_dataset_stats"}
         => raised \in {"FileNotFoundError", "KeyError"} /\ result = <<>>

\* a load was tried on a readable file without its tempo column
C17_Witness ==
  /\ call.op = "get_dataset_stats"
  /\ source.readable
  /\ "tempo" \notin source.columns
  /\ raised = "KeyError"
  /\ ~cached_df.set

\* text contains sub as a literal substring
Contains(text, sub) ==
  \E off \in 0..(Len(text) - Len(sub)) :
    \A i \in 1..Len(sub) : text[off + i] = sub[i]

MatchesQuery(r) ==
  \/ Contains(Lower(r.track_name), Lower(call.query))
  \/ Contains(Lower(r.artists), Lower(call.query))

\* C18 (as claimed): for a non-empty query, search_tracks returns, in catalog
\* order, exactly the rows whose track_name or artists contains the query as
\* a literal substring, letter case ignored.
C18_SearchLiteralSubstring ==
  (Returned("search_tracks") /\ call.mode = "search" /\ call.query # <<>>)
  => result = SelectSeq(Catalog, MatchesQuery)

\* C19: in the "By Song" and the "Search" mode, whatever is typed,
\* search_tracks is never called with an empty query.
C19_NoEmptySearch ==
  call.op = "search_tracks" => call.query # <<>>

\* a one-character query went through the "Search" mode
C19_Witness ==
  /\ Returned("search_tracks")
  /\ call.mode = "search"
  /\ Len(call.query) = 1
  /\ Len(result) >= 1

SameGenreFolded(r) == Lower(r.genre) = Lower(call.genre)

\* C20 (as claimed): get_tracks_by_genre(genre, limit) returns the first
\* limit rows, in catalog order, of the rows whose genre equals the given
\* value when letter case is ignored on both sides.
C20_GenreCaseInsensitive ==
  Returned("get_tracks_by_genre")
  => result = Head_n(SelectSeq(Catalog, SameGenreFolded), call.n)

\* C13: when concurrent script runs race to trigger initialization, the
\* file is read into a catalog at most once and an engine is constructed
\* at most once in the process, and every run that gets through observes
\* the same catalog object and the same engine, which holds that catalog
Finished(t) == threads[t].pc = "done"

C13_InitAtMostOnce ==
  /\ ids.reads <= 1
  /\ ids.fits <= 1
  /\ \A t \in Threads :
       Finished(t) =>
         /\ threads[t].engine = resource
         /\ threads[t].df = ids.cached
         /\ ids.df_of[threads[t].engine] = threads[t].df
  /\ \A t, u \in Threads :
       Finished(t) /\ Finished(u) =>
         /\ threads[t].engine = threads[u].engine
         /\ threads[t].df = threads[u].df

\* two runs both found the cache empty, raced for the initialization, and
\* both finished
C13_Witness ==
  \E t, u \in Threads :
    /\ t # u
    /\ threads[t].missed /\ threads[u].missed
    /\ Finished(t) /\ Finished(u)
    /\ ids.reads = 1 /\ ids.fits = 1

\* the columns that hold one repeated value across the whole catalog
ConstantColumns == {c \in 1..NF : recommender.scaler.data_range[c] = 0}

\* the similarity of catalog row j to the query when column c is left out
\* of both vectors
SimWithout(c, j) ==
  cosine_similarity([CallVector EXCEPT ![c] = 0],
                    [recommender.scaled_features[j] EXCEPT ![c] = 0])

\* C21 (as claimed): a column with min = max is normalized to 0 in every
\* catalog row and in every query vector passed through the transform,
\* whatever the query supplies for it, no operation raises, and the column
\* adds nothing to a similarity.
C21_ConstantColumnNeutral ==
  recommender.built =>
    \A c \in ConstantColumns :
      /\ \A i \in 1..CatalogSize : recommender.scaled_features[i][c] = 0
      /\ call.op = "get_recommendations_by_features" =>
           /\ raised = "none"
           /\ CallVector[c] = 0
           /\ \A j \in 1..CatalogSize : CallSim(j) = SimWithout(c, j)

\* C22 (as claimed): every similarity_score of a result of a recommend
\* operation lies between 0 and 100 (scores are in tenths of a percent).
C22_ScoreRange ==
  (call.op \in RecommendOps /\ raised = "none")
  => \A p \in 1..Len(result) :
       /\ 0 <= result[p].similarity_score
       /\ result[p].similarity_score <= 1000

\* C25 (as claimed): with exclude_same_artist false the seed is never in
\* the result of get_recommendations, however many rows are asked for,
\* K >= catalog size included.
C25_SeedExcludedEveryK ==
  (/\ Returned("get_recommendations")
   /\ InCatalog(call.track_id)
   /\ ~call.exclude_same_artist)
  => \A p \in 1..Len(result) : result[p].track_id # call.track_id

\* the raw feature values of catalog row i
RawFeatures(i) == [c \in 1..NF |-> Catalog[i].features[c].v]

\* the catalog rows whose exact raw feature values the current call passes
\* as a full mapping
ItemsAsked ==
  {i \in 1..CatalogSize : call.features_dict = FullDict(RawFeatures(i))}

\* C23: get_recommendations_by_features called with the full mapping of a
\* catalog item's raw feature values gives that item the maximum similarity
\* over the catalog: no row's similarity and no returned score is higher,
\* and the item is returned with the top score of the list.
C23_OwnFeaturesScoreMax ==
  Returned("get_recommendations_by_features") =>
    \A i \in ItemsAsked :
      /\ \A j \in 1..CatalogSize : SimLeq(CallSim(j), CallSim(i))
      /\ \A p \in 1..Len(result) :
           /\ result[p].similarity_score <= RoundScore(CallSim(i))
           /\ result[p].track_id = Catalog[i].track_id =>
                result[p].similarity_score = result[1].similarity_score

\* three rows, the item asked for lies between the other two and scores
\* 100.0, another row scores less
C23_Witness ==
  /\ Returned("get_recommendations_by_features")
  /\ CatalogSize = 3
  /\ Len(result) = 3
  /\ \E i \in ItemsAsked :
       /\ RoundScore(CallSim(i)) = 1000
       /\ \E j \in 1..CatalogSize :
            SimLess(CallSim(j), CallSim(i)) /\ SimLess(SimZero, CallSim(j))

\* the similarity 1
SimOne == [sgn |-> 1, num |-> 1, den |-> 1]

ZeroVector(v) == \A c \in 1..NF : v[c] = 0

\* the current call compares a seed of the catalog or a feature mapping
\* with the catalog rows
ComparesRows ==
  \/ call.op = "get_recommendations" /\ InCatalog(call.track_id)
  \/ call.op = "get_recommendations_by_features"

\* a zero vector takes part in the current call's comparisons
ZeroVectorInvolved ==
  \/ ZeroVector(CallVector)
  \/ \E j \in 1..CatalogSize : ZeroVector(recommender.scaled_features[j])

\* the self-similarity and the zero-vector fallback of the current call
C26_SimilarityValues ==
  /\ (call.op = "get_recommendations" /\ ~ZeroVector(CallVector))
       => CallSim(RowOf(call.track_id)) = SimOne
  /\ \A j \in 1..CatalogSize :
       (ZeroVector(CallVector) \/ ZeroVector(recommender.scaled_features[j]))
         => CallSim(j) = SimZero

\* C26 (as claimed): a seed's normalized row has similarity 1 with itself
\* before the forcing; a similarity that involves a zero vector is the
\* fallback 0 and nothing raises, so get_recommendations and
\* get_recommendations_by_features still return min(K, candidates) rows.
C26_ZeroVectorFallback ==
  ComparesRows =>
    /\ raised = "none"
    /\ C26_SimilarityValues
    /\ ZeroVectorInvolved
         => Len(result) = Min2(call.n, Cardinality(Candidates))

====
